---- MODULE Spec2Model ----
(***************************************************************************)
(* Traffic sign classifier (predict_sign.py): the TrafficSignPredictor     *)
(* (model load, decode, resize, normalise, batch, infer, argmax, label     *)
(* lookup) and the TrafficSignGUI shell that constructs it and calls it    *)
(* from the upload handler.                                                *)
(*                                                                         *)
(* Floats are fixed-point hundredths: Unit stands for 1.0, so 95 is 0.95.  *)
(* A Python object is the function from its attribute names to their       *)
(* values; an object without attributes is the empty function.             *)
(***************************************************************************)
EXTENDS Integers, Sequences, FiniteSets, TLC

\* ------------------------------------------------------------------------
\* Values
\* ------------------------------------------------------------------------

\* Python's None in the class_id position of a result (np.argmax is never
\* negative, so -1 is free to stand for it).
None == -1

\* 1.0 in fixed-point hundredths.
Unit == 100

\* cv2.resize(image, (30, 30))
InputSide == 30

\* image / 255.0
PixelMax == 255

\* number of keys of self.categories
NumCategories == 43

\* confidence * 100, confidence > 0.8, confidence > 0.5
MeterScale == 100
GreenAbove == 80
YellowAbove == 50

\* The values of self.categories, key 0 first.
category_names ==
    <<
       "Speed limit (20km/h)",
       "Speed limit (30km/h)",
       "Speed limit (50km/h)",
       "Speed limit (60km/h)",
       "Speed limit (70km/h)",
       "Speed limit (80km/h)",
       "End of speed limit (80km/h)",
       "Speed limit (100km/h)",
       "Speed limit (120km/h)",
       "No passing",
       "No passing for vehicles over 3.5 tons",
       "Right-of-way at next intersection",
       "Priority road",
       "Yield",
       "Stop",
       "No vehicles",
       "Vehicles over 3.5 tons prohibited",
       "No entry",
       "General caution",
       "Dangerous curve left",
       "Dangerous curve right",
       "Double curve",
       "Bumpy road",
       "Slippery road",
       "Road narrows on the right",
       "Road work",
       "Traffic signals",
       "Pedestrians",
       "Children crossing",
       "Bicycles crossing",
       "Beware of ice/snow",
       "Wild animals crossing",
       "End of all speed and passing limits",
       "Turn right ahead",
       "Turn left ahead",
       "Ahead only",
       "Go straight or right",
       "Go straight or left",
       "Keep right",
       "Keep left",
       "Roundabout mandatory",
       "End of no passing",
       "End of no passing by vehicles over 3.5 tons"
    >>

\* The table keyed from 1 instead of 0.
categories_from_one == [i \in 1..NumCategories |-> category_names[i]]

\* self.categories = {0: "Speed limit (20km/h)", ..., 42: "..."}
categories == [i \in 0..(NumCategories - 1) |-> category_names[i + 1]]

\* An object with no attribute set.
NoAttrs == [a \in {} |-> 0]

\* ------------------------------------------------------------------------
\* The file system the program reads: image files and the model artifact
\* ------------------------------------------------------------------------

\* What lies behind each image path.  kind: "missing" (no such file),
\* "empty" (zero bytes), "corrupt" (undecodable bytes), "pilonly" (data PIL
\* opens but OpenCV has no decoder for), "image" (decodable by both).
\* fault names the preprocessing step that raises on this input, if any.
Files ==
    [ missing  |-> [kind |-> "missing", content |-> "",     h |-> 0,  w |-> 0,  fault |-> "none"],
      empty    |-> [kind |-> "empty",   content |-> "",     h |-> 0,  w |-> 0,  fault |-> "none"],
      corrupt  |-> [kind |-> "corrupt", content |-> "",     h |-> 0,  w |-> 0,  fault |-> "none"],
      anim     |-> [kind |-> "pilonly", content |-> "anim", h |-> 16, w |-> 16, fault |-> "none"],
      stop     |-> [kind |-> "image",   content |-> "stop", h |-> 64, w |-> 48, fault |-> "none"],
      blur     |-> [kind |-> "image",   content |-> "blur", h |-> 30, w |-> 30, fault |-> "none"],
      flat     |-> [kind |-> "image",   content |-> "flat", h |-> 8,  w |-> 8,  fault |-> "none"],
      badsize  |-> [kind |-> "image",   content |-> "stop", h |-> 64, w |-> 48, fault |-> "resize"],
      baddiv   |-> [kind |-> "image",   content |-> "blur", h |-> 30, w |-> 30, fault |-> "normalise"],
      badbatch |-> [kind |-> "image",   content |-> "flat", h |-> 8,  w |-> 8,  fault |-> "batch"] ]

\* The paths a caller can pass to predict_image.
Paths == DOMAIN Files

\* askopenfilename returns "" when the dialog is cancelled.
Cancelled == ""

\* The artifacts that can be found at the model path.  input is the side of
\* the input tensor the network accepts, width the length of its output
\* vector, fault the step that raises with this network ("predict": the
\* forward pass, "argmax": np.argmax over a ragged multi-output result).
\* Each network's output for an image content is low everywhere except at
\* peaks, where it is high.
Signs43 ==
    [name |-> "signs43", input |-> 30, width |-> 43, fault |-> "none",
     out |-> [stop |-> [peaks |-> {14},    high |-> 95, low |-> 0],
              blur |-> [peaks |-> {3, 5},  high |-> 30, low |-> 1],
              flat |-> [peaks |-> 0..42,   high |-> 2,  low |-> 2]]]
Signs44 ==
    [name |-> "signs44", input |-> 30, width |-> 44, fault |-> "none",
     out |-> [stop |-> [peaks |-> {14},     high |-> 95, low |-> 0],
              blur |-> [peaks |-> {43},     high |-> 70, low |-> 0],
              flat |-> [peaks |-> {20, 43}, high |-> 40, low |-> 0]]]
Logits43 ==
    [name |-> "logits43", input |-> 30, width |-> 43, fault |-> "none",
     out |-> [stop |-> [peaks |-> {14},   high |-> 250, low |-> -20],
              blur |-> [peaks |-> {3, 5}, high |-> 120, low |-> 10],
              flat |-> [peaks |-> 0..42,  high |-> -20, low |-> -20]]]
Signs32 ==
    [name |-> "signs32", input |-> 32, width |-> 43, fault |-> "none",
     out |-> Signs43.out]
TwoHeads ==
    [name |-> "twoheads", input |-> 30, width |-> 43, fault |-> "argmax",
     out |-> Signs43.out]
Slow ==
    [name |-> "oom", input |-> 30, width |-> 43, fault |-> "predict",
     out |-> Signs43.out]

Networks == {Signs43, Signs44, Logits43, Signs32, TwoHeads, Slow}

\* What can lie at the model path: nothing, a file that is no model, or one
\* of the networks.
Artifacts ==
    {[kind |-> "missing", net |-> Signs43], [kind |-> "corrupt", net |-> Signs43]}
    \cup {[kind |-> "model", net |-> n] : n \in Networks}

\* ------------------------------------------------------------------------
\* Library calls made by predict_image.  A call that can raise returns
\* [ok |-> FALSE, ...]; val is then a placeholder.
\* ------------------------------------------------------------------------

\* The empty array standing for imread's None result.
NoArray == [content |-> "", h |-> 0, w |-> 0, c |-> 0, maxval |-> 0,
            batch |-> FALSE, fault |-> "none"]

\* cv2.imread(image_path): None (ok = FALSE) unless the file decodes; a
\* decoded file is a BGR uint8 array of the file's height and width.
imread(image_path) ==
    LET f == Files[image_path] IN
    IF f.kind = "image"
    THEN [ok |-> TRUE,
          val |-> [content |-> f.content, h |-> f.h, w |-> f.w, c |-> 3,
                   maxval |-> PixelMax * Unit, batch |-> FALSE,
                   fault |-> f.fault]]
    ELSE [ok |-> FALSE, val |-> NoArray]

\* Image.open(file_path) of the upload handler: raises unless PIL can read
\* the file.
Image_open(file_path) == Files[file_path].kind \in {"image", "pilonly"}

\* cv2.resize(image, (side, side)): raises on None (an empty source) and on
\* an input marked to fail here.
resize(image, side) ==
    IF image.h = 0 \/ image.w = 0 \/ image.fault = "resize"
    THEN [ok |-> FALSE, val |-> NoArray]
    ELSE [ok |-> TRUE, val |-> [image EXCEPT !.h = side, !.w = side]]

\* image / 255.0
normalise(image) ==
    IF image.fault = "normalise"
    THEN [ok |-> FALSE, val |-> NoArray]
    ELSE [ok |-> TRUE, val |-> [image EXCEPT !.maxval = image.maxval \div PixelMax]]

\* np.expand_dims(image, axis=0)
expand_dims(image) ==
    IF image.fault = "batch"
    THEN [ok |-> FALSE, val |-> NoArray]
    ELSE [ok |-> TRUE, val |-> [image EXCEPT !.batch = TRUE]]

\* The output vector of a network for an image content, indexed from 0.
Vector(model, content) ==
    LET o == model.out[content] IN
    [i \in 0..(model.width - 1) |-> IF i \in o.peaks THEN o.high ELSE o.low]

\* The placeholder prediction of a forward pass that raised.
NoPrediction == [ragged |-> FALSE, width |-> 0, vec |-> [i \in {} |-> 0]]

\* self.model.predict(image): raises when the batch does not have the
\* network's input shape or the forward pass fails; otherwise the network's
\* output vector for the image content (ragged when the network's result
\* is not one rectangular array).
model_predict(model, image) ==
    IF \/ ~image.batch
       \/ image.h # model.input \/ image.w # model.input \/ image.c # 3
       \/ model.fault = "predict"
    THEN [ok |-> FALSE, val |-> NoPrediction]
    ELSE [ok |-> TRUE,
          val |-> [ragged |-> model.fault = "argmax",
                   width |-> model.width,
                   vec |-> Vector(model, image.content)]]

\* The scan of np.argmax over the flattened array: the running best index
\* moves only to a strictly greater value.
RECURSIVE argmax_scan(_, _, _, _)
argmax_scan(vec, width, i, best) ==
    IF i >= width THEN best
    ELSE argmax_scan(vec, width, i + 1, IF vec[i] > vec[best] THEN i ELSE best)

\* The scan with the comparison slipped to >= (last maximum wins).
argmax_last(prediction) ==
    LET RECURSIVE scan(_, _)
        scan(i, best) ==
            IF i >= prediction.width THEN best
            ELSE scan(i + 1, IF prediction.vec[i] >= prediction.vec[best] THEN i ELSE best)
    IN  scan(1, 0)

\* np.argmax(prediction)
argmax(prediction) == argmax_scan(prediction.vec, prediction.width, 1, 0)

\* The scan of np.max: the running maximum.
RECURSIVE max_scan(_, _, _, _)
max_scan(vec, width, i, best) ==
    IF i >= width THEN best
    ELSE max_scan(vec, width, i + 1, IF vec[i] > best THEN vec[i] ELSE best)

\* np.max(prediction)
np_max(prediction) == max_scan(prediction.vec, prediction.width, 1, prediction.vec[0])

\* d[key] in place of d.get(key, default): KeyError on a missing key.
dict_index(d, key, default) ==
    IF key \in DOMAIN d THEN [ok |-> TRUE, val |-> d[key]]
    ELSE [ok |-> FALSE, val |-> default]

\* self.categories.get(predicted_class, "Unknown")
dict_get(d, key, default) ==
    [ok |-> TRUE, val |-> IF key \in DOMAIN d THEN d[key] ELSE default]

\* ------------------------------------------------------------------------
\* TrafficSignPredictor
\* ------------------------------------------------------------------------

\* os.path.exists(model_path)
os_path_exists(artifact) == artifact.kind # "missing"

\* tf.keras.models.load_model(model_path): raises on a file that is no model.
load_model(artifact) == [ok |-> artifact.kind = "model", val |-> artifact.net]

\* The constructor with the label table assigned ahead of the existence
\* check, so that a failed construction leaves an attribute behind.
TrafficSignPredictor_init_eager(artifact) ==
    IF ~os_path_exists(artifact)
    THEN [self |-> [categories |-> categories], raised |-> "FileNotFoundError",
          shown |-> <<"Failed to load model">>, loads |-> 0]
    ELSE LET m == load_model(artifact) IN
         IF ~m.ok
         THEN [self |-> [categories |-> categories], raised |-> "OSError",
               shown |-> <<"Failed to load model">>, loads |-> 1]
         ELSE [self |-> [model |-> m.val, categories |-> categories],
               raised |-> "none", shown |-> <<>>, loads |-> 1]

\* The constructor without the re-raise after the error box: a failed
\* construction returns normally.
TrafficSignPredictor_init_swallow(artifact) ==
    IF ~os_path_exists(artifact)
    THEN [self |-> NoAttrs, raised |-> "none",
          shown |-> <<"Failed to load model">>, loads |-> 0]
    ELSE LET m == load_model(artifact) IN
         IF ~m.ok
         THEN [self |-> NoAttrs, raised |-> "none",
               shown |-> <<"Failed to load model">>, loads |-> 1]
         ELSE [self |-> [model |-> m.val, categories |-> categories],
               raised |-> "none", shown |-> <<>>, loads |-> 1]

\* TrafficSignPredictor.__init__(model_path): self is the attributes the
\* instance ends with, raised the exception that leaves the constructor,
\* shown the error boxes it opened, loads the number of load_model calls.
TrafficSignPredictor_init(artifact) ==
    IF ~os_path_exists(artifact)
    THEN [self |-> NoAttrs, raised |-> "FileNotFoundError",
          shown |-> <<"Failed to load model">>, loads |-> 0]
    ELSE LET m == load_model(artifact) IN
         IF ~m.ok
         THEN [self |-> NoAttrs, raised |-> "OSError",
               shown |-> <<"Failed to load model">>, loads |-> 1]
         ELSE [self |-> [model |-> m.val, categories |-> categories],
               raised |-> "none", shown |-> <<>>, loads |-> 1]

\* A result triple (class_id, class_name, confidence).
Result(class_id, class_name, confidence) == <<class_id, class_name, confidence>>

NoResult == Result(None, "", 0)

\* The decode test dropped: a None image goes on to cv2.resize.
image_never_None(image) == FALSE

\* image is None
image_is_None(image) == ~image.ok

\* The try block of predict_image.  ok is FALSE when an exception leaves
\* the block; inferred tells whether self.model.predict was called.
try_block(self, image_path) ==
    LET Raise(inf) == [ok |-> FALSE, ret |-> NoResult, inferred |-> inf]
        image == imread(image_path)
    IN
    IF image_is_None(image)
    THEN [ok |-> TRUE, ret |-> Result(None, "Invalid image", 0), inferred |-> FALSE]
    ELSE
    LET resized == resize(image.val, InputSide) IN
    IF ~resized.ok THEN Raise(FALSE) ELSE
    LET scaled == normalise(resized.val) IN
    IF ~scaled.ok THEN Raise(FALSE) ELSE
    LET batch == expand_dims(scaled.val) IN
    IF ~batch.ok THEN Raise(FALSE) ELSE
    IF "model" \notin DOMAIN self THEN Raise(FALSE) ELSE
    LET prediction == model_predict(self.model, batch.val) IN
    IF ~prediction.ok THEN Raise(TRUE) ELSE
    IF prediction.val.ragged THEN Raise(TRUE) ELSE
    LET predicted_class == argmax(prediction.val)
        confidence == np_max(prediction.val)
        class_name == dict_get(self.categories, predicted_class, "Unknown")
    IN
    IF ~class_name.ok THEN Raise(TRUE)
    ELSE [ok |-> TRUE,
          ret |-> Result(predicted_class, class_name.val, confidence),
          inferred |-> TRUE]

\* A handler that lets the exception through (as "except ValueError" would
\* for a cv2.error).
except_too_narrow(block) ==
    [raised |-> ~block.ok, ret |-> block.ret]

\* except Exception: return None, "Prediction failed", 0.0
except_Exception(block) ==
    IF block.ok
    THEN [raised |-> FALSE, ret |-> block.ret]
    ELSE [raised |-> FALSE, ret |-> Result(None, "Prediction failed", 0)]

\* self with attribute name set to value.
SetAttr(self, name, value) ==
    [a \in DOMAIN self \cup {name} |-> IF a = name THEN value ELSE self[a]]

\* predict_image keeping each result on the instance (self.last = ...).
predict_image_cached(self, image_path) ==
    LET block == try_block(self, image_path)
        out == except_Exception(block)
    IN
    [raised |-> out.raised, ret |-> out.ret, inferred |-> block.inferred,
     self |-> SetAttr(self, "last", out.ret)]

\* predict_image answering from a result buffer filled one call late: the
\* triple returned is the one computed by the call before.
predict_image_stale(self, image_path) ==
    LET block == try_block(self, image_path)
        out == except_Exception(block)
    IN
    [raised |-> out.raised,
     ret |-> IF "last" \in DOMAIN self THEN self["last"] ELSE out.ret,
     inferred |-> block.inferred,
     self |-> SetAttr(self, "last", out.ret)]

\* TrafficSignPredictor.predict_image(image_path): raised tells whether an
\* exception leaves the method, ret is the returned triple, self the
\* instance's attributes after the call.
predict_image(self, image_path) ==
    LET block == try_block(self, image_path)
        out == except_Exception(block)
    IN
    [raised |-> out.raised, ret |-> out.ret, inferred |-> block.inferred,
     self |-> self]

\* ------------------------------------------------------------------------
\* State
\* ------------------------------------------------------------------------

VARIABLES
    model_file,        \* what lies at MODEL_FILE
    pc,                \* position of __main__: "start", "checked", "mainloop", "exit"
    root,              \* the Tk root window: "alive" or "destroyed"
    dialogs,           \* the messagebox.showerror boxes shown, by title
    predictor,         \* attributes of the TrafficSignPredictor instance
    has_predictor,     \* whether TrafficSignGUI.predictor is bound
    ctor_raised,       \* exception that left TrafficSignPredictor.__init__
                       \* ("none" on success, "not called" before the call)
    loads,             \* number of load_model calls made
    widgets,           \* whether create_widgets ran (upload_btn exists)
    image_label,       \* path of the photo in the preview, "" when none
    result_label,      \* text and colour of the result label
    confidence_meter,  \* value and style of the progress bar
    call,              \* the latest predict_image invocation
    event,             \* the latest run of the upload handler
    pinned             \* one earlier predict_image invocation, remembered

vars == <<model_file, pc, root, dialogs, predictor, has_predictor, ctor_raised,
          loads, widgets, image_label, result_label, confidence_meter, call,
          event, pinned>>

gui == <<image_label, result_label, confidence_meter, event>>
startup == <<model_file, pc, root, dialogs, has_predictor, ctor_raised, loads, widgets>>

NoCall == [path |-> "", raised |-> FALSE, ret |-> NoResult, inferred |-> FALSE]

NoPin == [path |-> "", class_id |-> None, confidence |-> 0,
          again |-> FALSE, between |-> FALSE]

\* result_label as create_widgets makes it.
StartLabel ==
    [text |-> "Upload an image to get started", class_name |-> "",
     class_id |-> None, foreground |-> "default"]

\* text=f"Prediction: {class_name}\n(ID: {class_id})", foreground=PRIMARY_COLOR
PredictionLabel(class_name, class_id) ==
    [text |-> "Prediction: {class_name}\n(ID: {class_id})",
     class_name |-> class_name, class_id |-> class_id,
     foreground |-> "PRIMARY_COLOR"]

\* text=f"Error: {str(e)}", foreground=ACCENT_COLOR
ErrorLabel ==
    [text |-> "Error: {str(e)}", class_name |-> "", class_id |-> None,
     foreground |-> "ACCENT_COLOR"]

\* The progress bar style chosen from the confidence.
meter_style(confidence) ==
    IF confidence > GreenAbove THEN "Green.Horizontal.TProgressbar"
    ELSE IF confidence > YellowAbove THEN "Yellow.Horizontal.TProgressbar"
    ELSE "Red.Horizontal.TProgressbar"

Init ==
    /\ model_file \in Artifacts
    /\ pc = "start"
    /\ root = "alive"
    /\ dialogs = <<>>
    /\ predictor = NoAttrs
    /\ has_predictor = FALSE
    /\ ctor_raised = "not called"
    /\ loads = 0
    /\ widgets = FALSE
    /\ image_label = ""
    /\ result_label = StartLabel
    /\ confidence_meter = [value |-> 0, style |-> "default"]
    /\ call = NoCall
    /\ event = [kind |-> "none", ret |-> NoResult]
    /\ pinned = NoPin

\* ------------------------------------------------------------------------
\* Startup
\* ------------------------------------------------------------------------

\* __main__: os.path.exists(MODEL_FILE); a missing file is reported and the
\* script ends without building the GUI.
MainCheck ==
    /\ pc = "start"
    /\ IF ~os_path_exists(model_file)
       THEN /\ dialogs' = Append(dialogs, "Missing Model")
            /\ pc' = "exit"
       ELSE /\ pc' = "checked"
            /\ UNCHANGED dialogs
    /\ UNCHANGED <<model_file, root, predictor, has_predictor, ctor_raised,
                   loads, widgets, call, pinned>>
    /\ UNCHANGED gui

\* The model file is deleted between the check of __main__ and the check of
\* the constructor.
ModelFileDeleted ==
    /\ pc = "checked"
    /\ os_path_exists(model_file)
    /\ model_file' = [model_file EXCEPT !.kind = "missing"]
    /\ UNCHANGED <<pc, root, dialogs, predictor, has_predictor, ctor_raised,
                   loads, widgets, call, pinned>>
    /\ UNCHANGED gui

\* TrafficSignGUI.__init__(root, model_path): the predictor is constructed
\* and the widgets made; on an exception the root window is destroyed.
TrafficSignGUI_init(artifact) ==
    LET c == TrafficSignPredictor_init(artifact) IN
    IF c.raised = "none"
    THEN [ctor |-> c, has_predictor |-> TRUE, widgets |-> TRUE, root |-> "alive"]
    ELSE [ctor |-> c, has_predictor |-> FALSE, widgets |-> FALSE, root |-> "destroyed"]

\* app = TrafficSignGUI(root, MODEL_FILE); root.mainloop().  The main loop
\* of a destroyed root returns at once.
Construct ==
    /\ pc = "checked"
    /\ LET g == TrafficSignGUI_init(model_file) IN
       /\ predictor' = g.ctor.self
       /\ has_predictor' = g.has_predictor
       /\ ctor_raised' = g.ctor.raised
       /\ loads' = loads + g.ctor.loads
       /\ dialogs' = dialogs \o g.ctor.shown
       /\ widgets' = g.widgets
       /\ root' = g.root
       /\ pc' = IF g.root = "alive" THEN "mainloop" ELSE "exit"
    /\ UNCHANGED <<model_file, call, pinned>>
    /\ UNCHANGED gui

\* The user closes the window: root.mainloop() returns and the script ends.
WindowClose ==
    /\ pc = "mainloop"
    /\ root' = "destroyed"
    /\ pc' = "exit"
    /\ UNCHANGED <<model_file, dialogs, predictor, has_predictor, ctor_raised,
                   loads, widgets, call, pinned>>
    /\ UNCHANGED gui

\* ------------------------------------------------------------------------
\* Classification
\* ------------------------------------------------------------------------

\* The record kept of a predict_image invocation r on path p.
CallOf(r, p) ==
    [path |-> p, raised |-> r.raised, ret |-> r.ret, inferred |-> r.inferred]

\* What is remembered of earlier invocations once r on path p has
\* returned: one earlier invocation stays pinned, with whether its path was
\* classified again since and whether an invocation on another path that
\* returned no class came after it.
Remember(r, p) ==
    IF pinned.path = ""
    THEN \E keep \in BOOLEAN :
            pinned' = IF keep /\ ~r.raised
                      THEN [path |-> p, class_id |-> r.ret[1],
                            confidence |-> r.ret[3],
                            again |-> FALSE, between |-> FALSE]
                      ELSE pinned
    ELSE IF p = pinned.path
    THEN pinned' = [pinned EXCEPT !.again = TRUE]
    ELSE pinned' = [pinned EXCEPT !.between = @ \/ r.ret[1] = None]

\* The except branch of upload_image.
ShowError ==
    /\ result_label' = ErrorLabel
    /\ confidence_meter' = [confidence_meter EXCEPT !.value = 0]

\* TrafficSignGUI.upload_image: the button's command.
upload_image(file_path) ==
    /\ pc = "mainloop"
    /\ widgets
    /\ root = "alive"
    /\ IF file_path = Cancelled
       THEN /\ event' = [kind |-> "cancel", ret |-> NoResult]
            /\ UNCHANGED <<image_label, result_label, confidence_meter,
                           predictor, call, pinned>>
       ELSE IF ~Image_open(file_path)
       THEN /\ ShowError
            /\ event' = [kind |-> "error", ret |-> NoResult]
            /\ UNCHANGED <<image_label, predictor, call, pinned>>
       ELSE IF ~has_predictor
       THEN /\ image_label' = file_path
            /\ ShowError
            /\ event' = [kind |-> "error", ret |-> NoResult]
            /\ UNCHANGED <<predictor, call, pinned>>
       ELSE \E r \in {predict_image(predictor, file_path)} :
            LET class_id == r.ret[1]
                class_name == r.ret[2]
                confidence == r.ret[3]
            IN
            /\ image_label' = file_path
            /\ predictor' = r.self
            /\ call' = CallOf(r, file_path)
            /\ UNCHANGED pinned
            /\ IF r.raised
               THEN /\ ShowError
                    /\ event' = [kind |-> "error", ret |-> NoResult]
               ELSE /\ event' = [kind |-> "classified", ret |-> r.ret]
                    /\ IF class_id # None
                       THEN /\ result_label' = PredictionLabel(class_name, class_id)
                            /\ confidence_meter' =
                                  [value |-> confidence * MeterScale,
                                   style |-> meter_style(confidence)]
                       ELSE UNCHANGED <<result_label, confidence_meter>>
    /\ UNCHANGED startup

\* A caller other than the upload handler invokes predict_image on the
\* constructed predictor.
Classify(image_path) ==
    /\ pc = "mainloop"
    /\ has_predictor
    /\ \E r \in {predict_image(predictor, image_path)} :
       /\ predictor' = r.self
       /\ call' = CallOf(r, image_path)
       /\ Remember(r, image_path)
    /\ UNCHANGED startup
    /\ UNCHANGED gui

\* The application: startup, the upload handler, the window closing.
Next ==
    \/ MainCheck
    \/ ModelFileDeleted
    \/ Construct
    \/ WindowClose
    \/ \E file_path \in Paths \cup {Cancelled} : upload_image(file_path)

Spec == Init /\ [][Next]_vars

\* The predictor under a caller of its own: startup, then predict_image on
\* any path.
NextClassifier ==
    \/ MainCheck
    \/ ModelFileDeleted
    \/ Construct
    \/ WindowClose
    \/ \E image_path \in Paths : Classify(image_path)

SpecClassifier == Init /\ [][NextClassifier]_vars

\* ------------------------------------------------------------------------
\* Properties
\* ------------------------------------------------------------------------

InvalidImage == Result(None, "Invalid image", 0)
PredictionFailed == Result(None, "Prediction failed", 0)

\* predict_image has been invoked, and call describes that invocation.
Called == call.path # ""

\* The file behind the latest call decodes.
Decodable == Files[call.path].kind = "image"

\* Some step after the decode raises for the latest call: the input is one
\* a preprocessing step fails on, the network rejects 30x30x3 batches, or
\* its forward pass or the argmax over its result fails.
StepRaises ==
    \/ Files[call.path].fault # "none"
    \/ predictor.model.input # InputSide
    \/ predictor.model.fault # "none"

\* The output vector the network gives for the image of the latest call.
CallVector == Vector(predictor.model, Files[call.path].content)

\* i is the lowest index at which vec is greatest.
IsFirstMax(vec, i) ==
    /\ i \in DOMAIN vec
    /\ \A j \in DOMAIN vec : vec[j] <= vec[i]
    /\ \A j \in DOMAIN vec : j < i => vec[j] < vec[i]

\* The network honours the model-artifact contract: a vector of exactly 43
\* values, each within [0.0, 1.0].
HonoursContract(model) ==
    /\ model.width = NumCategories
    /\ \A c \in DOMAIN model.out :
          /\ model.out[c].high \in 0..Unit
          /\ model.out[c].low \in 0..Unit

\* C1: predict_image is total.  Whatever the path and the network, no
\* exception leaves the call; and when the file decodes but a later step
\* (resize, normalisation, batching, inference, argmax/lookup) raises, the
\* value returned is exactly (None, "Prediction failed", 0.0).
C1_Total ==
    Called =>
        /\ ~call.raised
        /\ (Decodable /\ StepRaises) => call.ret = PredictionFailed

\* A decodable image whose forward pass was started and raised, reported
\* as "Prediction failed".
C1_Witness ==
    /\ Called /\ Decodable /\ StepRaises
    /\ call.inferred
    /\ call.ret = PredictionFailed

\* C2: for a path that does not resolve to a decodable image (missing,
\* zero-byte, corrupt or unsupported data) predict_image returns exactly
\* (None, "Invalid image", 0.0) and model.predict is not called.
C2_InvalidImage ==
    (Called /\ ~Decodable) =>
        /\ call.ret = InvalidImage
        /\ ~call.inferred
        /\ ~call.raised

\* predict_image was called on the zero-byte file.
C2_Witness ==
    /\ call.path = "empty"
    /\ call.ret = InvalidImage

\* C3 as stated: for every decodable image whose inference succeeds, the
\* class index is in 0..42, the confidence in [0.0, 1.0] and the label the
\* table entry of the class index.
C3_Original ==
    (Called /\ Decodable /\ call.ret[1] # None) =>
        /\ call.ret[1] \in 0..42
        /\ call.ret[3] \in 0..Unit
        /\ call.ret[2] = category_names[call.ret[1] + 1]

\* C3 amended: for every decodable image whose inference succeeds on a
\* network that returns a vector of exactly 43 values within [0.0, 1.0],
\* the class index is in 0..42, the confidence in [0.0, 1.0] and the label
\* the table entry of the class index; index 14 gives "Stop".
C3_Amended ==
    (Called /\ Decodable /\ call.ret[1] # None /\ HonoursContract(predictor.model)) =>
        /\ call.ret[1] \in 0..42
        /\ call.ret[3] \in 0..Unit
        /\ call.ret[2] = category_names[call.ret[1] + 1]
        /\ call.ret[1] = 14 => call.ret[2] = "Stop"

\* The stop sign classified to index 14 with confidence 0.95.
C3_Witness ==
    /\ call.path = "stop"
    /\ HonoursContract(predictor.model)
    /\ call.ret = Result(14, "Stop", 95)

\* C4: in the decide step the class index is the index of the greatest
\* value of the vector the network returned, the lowest such index when
\* several entries tie, and the confidence is the vector's value there.
C4_Argmax ==
    (Called /\ Decodable /\ call.ret[1] # None) =>
        /\ IsFirstMax(CallVector, call.ret[1])
        /\ call.ret[3] = CallVector[call.ret[1]]

\* A vector with its maximum at two indices (3 and 5), decided as 3.
C4_Witness ==
    /\ call.path = "blur"
    /\ CallVector[3] = CallVector[5]
    /\ IsFirstMax(CallVector, 3)
    /\ call.ret[1] = 3

\* C5: predict_image is deterministic and history-independent: a call on
\* the path of an earlier call returns the class index and confidence that
\* the earlier call returned, whatever calls were made in between.
C5_Deterministic ==
    (Called /\ call.path = pinned.path) =>
        /\ call.ret[1] = pinned.class_id
        /\ call.ret[3] = pinned.confidence

\* A classified image is classified again after a call on another path
\* that returned no class.
C5_Witness ==
    /\ Called /\ call.path = pinned.path
    /\ pinned.again /\ pinned.between
    /\ pinned.class_id # None

\* C6: constructing the predictor on a model path that does not exist
\* raises FileNotFoundError to the caller, sets neither the model nor the
\* label table on the instance and attempts no model load.
C6_ModelNotFound ==
    (ctor_raised # "not called" /\ ~os_path_exists(model_file)) =>
        /\ ctor_raised = "FileNotFoundError"
        /\ DOMAIN predictor = {}
        /\ ~has_predictor
        /\ loads = 0

\* The constructor ran on a missing model file.
C6_Witness ==
    /\ ctor_raised = "FileNotFoundError"
    /\ ~os_path_exists(model_file)
    /\ Len(dialogs) = 1

\* C7: when the class index decided is outside 0..42 (a network with a
\* wider output vector), the lookup gives "Unknown" and does not fail:
\* predict_image returns that index, "Unknown" and the maximum value.
C7_Unknown ==
    (Called /\ Decodable /\ ~StepRaises) =>
        \A i \in DOMAIN CallVector :
            (IsFirstMax(CallVector, i) /\ i \notin 0..42) =>
                call.ret = Result(i, "Unknown", CallVector[i])

\* A 44-wide vector with its maximum at index 43.
C7_Witness ==
    /\ Called /\ Decodable /\ ~StepRaises
    /\ IsFirstMax(CallVector, 43)
    /\ call.ret = Result(43, "Unknown", 70)

\* The upload button can be pressed.
UploadAvailable == pc = "mainloop" /\ widgets /\ root = "alive"

\* C8: after an upload in which predict_image was invoked, the result
\* label shows the label of that call's result ("Invalid image" and
\* "Prediction failed" included) and the meter its confidence, never those
\* of an earlier upload.
C8_RendersLatest ==
    event.kind = "classified" =>
        /\ result_label.class_name = event.ret[2]
        /\ confidence_meter.value = event.ret[3] * MeterScale

\* Construction of the predictor failed at startup: the model file was
\* missing at the check of __main__, or the constructor raised.
ConstructionFailed ==
    \/ pc = "exit" /\ ctor_raised = "not called"
    \/ ctor_raised \notin {"not called", "none"}

\* C9: when construction of the predictor fails at startup an error box
\* has been shown and the application never becomes usable; and the upload
\* action is available only with a successfully constructed predictor.
C9_NoUploadWithoutPredictor ==
    /\ ConstructionFailed => (Len(dialogs) >= 1 /\ ~UploadAvailable)
    /\ UploadAvailable =>
          /\ has_predictor
          /\ ctor_raised = "none"
          /\ DOMAIN predictor = {"model", "categories"}

\* The model file exists but does not load: the error box is up and the
\* script has ended without widgets.
C9_Witness ==
    /\ ctor_raised = "OSError"
    /\ Len(dialogs) = 1
    /\ pc = "exit"
    /\ ~widgets

\* C10: once constructed, the model and the label table (exactly the keys
\* 0..42) never change and the instance gains no attribute: every step,
\* predict_image calls of every outcome included, leaves them as they are.
C10_Frame ==
    [][has_predictor =>
          /\ predictor' = predictor
          /\ DOMAIN predictor' = {"model", "categories"}
          /\ DOMAIN predictor'.categories = 0..42]_vars

\* A call that returned "Prediction failed" on a constructed predictor.
C10_Witness ==
    /\ has_predictor
    /\ call.ret = PredictionFailed
    /\ DOMAIN predictor = {"model", "categories"}
    /\ DOMAIN predictor.categories = 0..42

====
